---- MODULE Spec2Model ----
(***************************************************************************)
(* A model of scripts/transcribe.py: the orchestration of format           *)
(* conversion, transcription, alignment and speaker diarization in         *)
(* transcribe_audio, and the writing of the two artifacts in main.         *)
(*                                                                         *)
(* Times are seconds on an integer grid.  A segment is a Python dict: its  *)
(* "speaker" key is either not present (Missing), present with the value   *)
(* None, or present with a label; dbg tells whether the two diagnostic     *)
(* keys _assignment_method and _assignment_confidence are present.         *)
(* Speaker labels are the non-empty strings the diarization pipeline       *)
(* emits (SPEAKER_NN).                                                     *)
(***************************************************************************)
EXTENDS Integers, Sequences, FiniteSets, TLC

\* Bounds of the reconciler's inputs: the length of the segment list, the
\* length of the turn list, the largest time, and the two lengths together.
MaxSegs == 2
MaxTurns == 2
MaxTime == 2
MaxItems == 3

\* Python's None, and the state of a dict key that was never set.
None == "None"
Missing == "<missing>"
Labels == {"SPEAKER_00", "SPEAKER_01"}

\* The order sorted() gives to the labels.
LabelRank(l) ==
    CASE l = "SPEAKER_00" -> 0
      [] l = "SPEAKER_01" -> 1
      [] OTHER -> 2

Max(a, b) == IF a >= b THEN a ELSE b
Min(a, b) == IF a <= b THEN a ELSE b

Times == 0..MaxTime
Words == <<"alpha", "beta", "gamma", "delta">>

\* One segment as the ASR/alignment model returns it: no speaker key yet.
Seg(s, e, i) ==
    [start |-> s, end |-> e, text |-> Words[i], speaker |-> Missing, dbg |-> FALSE]

\* The segment lists model.transcribe / whisperx.align can return.
AsrOutputs ==
    UNION { { [i \in 1..n |-> Seg(f[i][1], f[i][2], i)] :
                f \in [1..n -> Times \X Times] } : n \in 0..MaxSegs }

\* One item of itertracks(yield_label=True); wf = FALSE is an item that is
\* too short or whose turn has no start/end attribute.
Item(s, e, l) == [start |-> s, end |-> e, speaker |-> l, wf |-> TRUE]
BadItem == [start |-> 0, end |-> 0, speaker |-> "SPEAKER_00", wf |-> FALSE]
Items == { Item(s, e, l) : s \in -1..MaxTime, e \in Times, l \in Labels } \cup {BadItem}

\* What the diarization model returns: an annotation whose itertracks either
\* raises or yields a list of items.
Annotation(r, tr) == [raises |-> r, tracks |-> tr]
DiarizeOutputs ==
    {Annotation(TRUE, <<>>)} \cup
    { Annotation(FALSE, tr) : tr \in UNION { [1..n -> Items] : n \in 0..MaxTurns } }

\* The inputs of the whole-run specification: a few representative lists.
SampleSegLists ==
    { <<>>, <<Seg(0, 2, 1)>>, <<Seg(0, 1, 1), Seg(2, 2, 2)>> }
SampleDiarizeOutputs ==
    { Annotation(TRUE, <<>>),
      Annotation(FALSE, <<>>),
      Annotation(FALSE, <<Item(0, 2, "SPEAKER_00")>>),
      Annotation(FALSE, <<Item(1, 1, "SPEAKER_01")>>),
      Annotation(FALSE, <<Item(0, 1, "SPEAKER_01"), Item(1, 2, "SPEAKER_00")>>) }

AudioSuffixes == {".wav", ".M4A"}
Lower(s) == IF s = ".M4A" THEN ".m4a" ELSE s
problematic_formats == {".m4a", ".mp4", ".webm", ".mpeg", ".mpga"}
needs_conversion_for_diarization(suffix) == Lower(suffix) \in problematic_formats

\* The messages of the exceptions the diarization block can raise.
ErrModel == "diarization model failed"
ErrSuccessful == "local variable 'successful_assignments' referenced before assignment"
ErrBestOverlap == "local variable 'best_overlap' referenced before assignment"
ErrZeroDiv == "division by zero"
ErrDetection == "Speaker detection failed"
ErrNoSpeakers == "No speakers detected in diarization output"
ErrNoToken == "HUGGINGFACE_TOKEN not available"

-----------------------------------------------------------------------------
(* The reconciler's computations.                                          *)

\* First pass over itertracks: the labels of every well-formed item,
\* whatever its timing; emptied when the iteration raises.
DetectSpeakers(d) ==
    IF d.raises THEN {}
    ELSE { d.tracks[k].speaker : k \in { j \in DOMAIN d.tracks : d.tracks[j].wf } }

ValidTimingAnyStart(it) == it.end > it.start
ValidTiming(it) == it.start >= 0 /\ it.end > it.start

\* Second pass: the well-formed items with valid timing, in order.
RECURSIVE ExtractFrom(_)
ExtractFrom(tr) ==
    IF tr = <<>> THEN <<>>
    ELSE LET it == Head(tr)
         IN  IF it.wf /\ ValidTiming(it)
             THEN <<[start |-> it.start, end |-> it.end, speaker |-> it.speaker,
                     duration |-> it.end - it.start]>> \o ExtractFrom(Tail(tr))
             ELSE ExtractFrom(Tail(tr))

ExtractTurns(d) == IF d.raises THEN <<>> ELSE ExtractFrom(d.tracks)

\* sorted(detected_speakers)
RECURSIVE SortedList(_)
SortedList(S) ==
    IF S = {} THEN <<>>
    ELSE LET m == CHOOSE x \in S : \A y \in S : LabelRank(x) <= LabelRank(y)
         IN  <<m>> \o SortedList(S \ {m})

OverlapDuration(ss, se, turn) ==
    Max(0, Min(se, turn.end) - Max(ss, turn.start))

IsBetterOverlapLast(overlap, best) == overlap >= best
IsBetterOverlap(overlap, best) == overlap > best

\* Strategy 1's scan: best = [overlap, speaker].
RECURSIVE ScanOverlap(_, _, _, _)
ScanOverlap(ss, se, turns, best) ==
    IF turns = <<>> THEN best
    ELSE LET t == Head(turns)
             o == OverlapDuration(ss, se, t)
         IN  ScanOverlap(ss, se, Tail(turns),
                         IF IsBetterOverlap(o, best.overlap)
                         THEN [overlap |-> o, speaker |-> t.speaker]
                         ELSE best)

DistanceFromStart(ss, se, turn) ==
    IF se <= turn.start THEN turn.start - se
    ELSE IF ss >= turn.end THEN ss - turn.start
    ELSE 0
Distance(ss, se, turn) ==
    IF se <= turn.start THEN turn.start - se
    ELSE IF ss >= turn.end THEN ss - turn.end
    ELSE 0

\* Strategy 2's scan: closest = [inf, distance, speaker]; inf = TRUE is
\* min_distance = float('inf').
RECURSIVE ScanClosest(_, _, _, _)
ScanClosest(ss, se, turns, closest) ==
    IF turns = <<>> THEN closest
    ELSE LET t == Head(turns)
             d == Distance(ss, se, t)
         IN  ScanClosest(ss, se, Tail(turns),
                         IF closest.inf \/ d < closest.distance
                         THEN [inf |-> FALSE, distance |-> d, speaker |-> t.speaker]
                         ELSE closest)

\* Strategy 3, the time-based fallback; i is the 0-based segment index.
\* segment_start < total_duration / 2 is compared without the division.
TimeFallback(i, ss, segs, speaker_list) ==
    IF Len(speaker_list) = 2
    THEN LET total_duration == IF segs = <<>> THEN 0 ELSE segs[Len(segs)].end
         IN  IF 2 * ss < total_duration THEN speaker_list[1] ELSE speaker_list[2]
    ELSE speaker_list[(i % Len(speaker_list)) + 1]

Truthy(label) == label # None /\ label # ""

\* The body of the loop over the segments for one segment, once
\* best_overlap is bound (some turn was extracted): the speaker and the
\* method that found it.  Strategy 3 always assigns a label of the non-empty
\* speaker list, so the final safety net after it assigns nothing.  The
\* confidence is a diagnostic float that is deleted with the method; its
\* division is by a positive duration, since best_overlap > 0 needs one.
AssignOne(i, seg, segs, turns, speaker_list) ==
    LET best == ScanOverlap(seg.start, seg.end, turns, [overlap |-> 0, speaker |-> None])
        closest == ScanClosest(seg.start, seg.end, turns,
                               [inf |-> TRUE, distance |-> 0, speaker |-> None])
    IN  IF best.overlap > 0
        THEN [speaker |-> best.speaker, method |-> "overlap"]
        ELSE IF turns # <<>> /\ Truthy(closest.speaker)
        THEN [speaker |-> closest.speaker, method |-> "closest"]
        ELSE [speaker |-> TimeFallback(i, seg.start, segs, speaker_list),
              method |-> "time_fallback"]

ApplyAssignmentShift(seg, a) ==
    [seg EXCEPT !.speaker = a.speaker, !.dbg = TRUE, !.end = seg.end + 1]
ApplyAssignment(seg, a) ==
    [seg EXCEPT !.speaker = a.speaker, !.dbg = TRUE]

\* The loop over the segments.  acc = [segments, successful, fallback, exc].
\* Every assigned label is a detected one, so the count kept per label in
\* assignment_debug never misses its key.
\* With no extracted turn the first segment reads best_overlap before any
\* assignment to it and the loop ends in UnboundLocalError.
RECURSIVE AssignLoop(_, _, _, _)
AssignLoop(k, turns, speaker_list, acc) ==
    IF k > Len(acc.segments) THEN acc
    ELSE IF turns = <<>> THEN [acc EXCEPT !.exc = ErrBestOverlap]
    ELSE LET seg == acc.segments[k]
             a == AssignOne(k - 1, seg, acc.segments, turns, speaker_list)
         IN  AssignLoop(k + 1, turns, speaker_list,
               [segments |-> [acc.segments EXCEPT ![k] = ApplyAssignment(seg, a)],
                successful |-> acc.successful + (IF a.method = "overlap" THEN 1 ELSE 0),
                fallback |-> acc.fallback + (IF a.method = "overlap" THEN 0 ELSE 1),
                exc |-> acc.exc])

\* Phase 2: no speaker detected, every segment gets speaker = None.
MarkNone(segs) == [k \in DOMAIN segs |-> [segs[k] EXCEPT !.speaker = None]]

\* Clean up debug metadata from segments.
StripDebugNothing(segs) == segs
StripDebugWrongKey(segs) ==
    [k \in DOMAIN segs |-> [segs[k] EXCEPT !.dbg = FALSE, !.end = segs[k].start + 1]]
StripDebug(segs) == [k \in DOMAIN segs |-> [segs[k] EXCEPT !.dbg = FALSE]]

\* The exception handler of the diarization block: the message replaces
\* whatever reason the metadata held.
DiarizeHandlerKeep(md, msg) == md
DiarizeHandler(md, msg) == [md EXCEPT !.error = msg]

\* Reconcile with the speaker count recorded before phase 4, so that a
\* failure in the report leaves it set.
ReconcileCountOnFailure(segs, d, md) ==
    LET detected == DetectSpeakers(d)
        turns == ExtractTurns(d)
        md1 == IF d.raises THEN [md EXCEPT !.error = ErrDetection] ELSE md
        unbound == [bound |-> FALSE, successful |-> 0, fallback |-> 0]
    IN  IF detected = {}
        THEN \* phase 2, then phase 4 reads successful_assignments
             LET md2 == [md1 EXCEPT !.success = FALSE, !.speaker_count = 0,
                                    !.error = IF md1.error = None THEN ErrNoSpeakers
                                              ELSE md1.error]
             IN  [segments |-> MarkNone(segs),
                  md |-> DiarizeHandler(md2, ErrSuccessful),
                  stats |-> unbound,
                  exc |-> ErrSuccessful]
        ELSE \* phase 3, then phase 4 divides by len(result["segments"])
             LET r == AssignLoop(1, turns, SortedList(detected),
                                 [segments |-> segs, successful |-> 0,
                                  fallback |-> 0, exc |-> None])
                 exc == IF r.exc # None THEN r.exc
                        ELSE IF Len(segs) = 0 THEN ErrZeroDiv
                        ELSE None
                 stats == [bound |-> TRUE, successful |-> r.successful,
                           fallback |-> r.fallback]
             IN  IF exc # None
                 THEN [segments |-> r.segments, md |-> DiarizeHandler([md1 EXCEPT !.speaker_count = Cardinality(detected)],
                                              exc),
                       stats |-> stats, exc |-> exc]
                 ELSE [segments |-> StripDebug(r.segments),
                       md |-> [md1 EXCEPT !.success = TRUE,
                                          !.speaker_count = Cardinality(detected)],
                       stats |-> stats, exc |-> None]

\* The diarization block from the first pass over the annotation to the
\* end of its try statement, for the segments segs, the annotation d and
\* the metadata md: the segments and the metadata it leaves, the two
\* counters (bound only once phase 3 was entered) and the message of the
\* exception its handler caught (None when it caught none).
Reconcile(segs, d, md) ==
    LET detected == DetectSpeakers(d)
        turns == ExtractTurns(d)
        md1 == IF d.raises THEN [md EXCEPT !.error = ErrDetection] ELSE md
        unbound == [bound |-> FALSE, successful |-> 0, fallback |-> 0]
    IN  IF detected = {}
        THEN \* phase 2, then phase 4 reads successful_assignments
             LET md2 == [md1 EXCEPT !.success = FALSE, !.speaker_count = 0,
                                    !.error = IF md1.error = None THEN ErrNoSpeakers
                                              ELSE md1.error]
             IN  [segments |-> MarkNone(segs),
                  md |-> DiarizeHandler(md2, ErrSuccessful),
                  stats |-> unbound,
                  exc |-> ErrSuccessful]
        ELSE \* phase 3, then phase 4 divides by len(result["segments"])
             LET r == AssignLoop(1, turns, SortedList(detected),
                                 [segments |-> segs, successful |-> 0,
                                  fallback |-> 0, exc |-> None])
                 exc == IF r.exc # None THEN r.exc
                        ELSE IF Len(segs) = 0 THEN ErrZeroDiv
                        ELSE None
                 stats == [bound |-> TRUE, successful |-> r.successful,
                           fallback |-> r.fallback]
             IN  IF exc # None
                 THEN [segments |-> r.segments, md |-> DiarizeHandler(md1, exc),
                       stats |-> stats, exc |-> exc]
                 ELSE [segments |-> StripDebug(r.segments),
                       md |-> [md1 EXCEPT !.success = TRUE,
                                          !.speaker_count = Cardinality(detected)],
                       stats |-> stats, exc |-> None]

-----------------------------------------------------------------------------
(* The state of one run of main.                                           *)

VARIABLES
    pc,                      \* the stage the run is at
    audio_suffix,            \* Path(audio_file).suffix
    enable_diarization,      \* the flag main passes
    hf_token,                \* whether HUGGINGFACE_TOKEN is set
    temp_created,            \* whether ffmpeg ever created the temporary wav
    temp_exists,             \* whether the temporary wav is on disk
    temp_file_to_cleanup,    \* whether transcribe_audio holds its path
    diarization_audio_file,  \* "original" or "converted"
    transcription_audio_file,\* "unset", "original" or "converted"
    diarization_metadata,
    asr_segments,            \* result["segments"] on entry to the diarization stage
    segments,                \* result["segments"]
    aligned,
    diarize_segments,        \* the annotation the diarization model returned
    assign_stats,            \* successful_assignments, fallback_assignments
    handler_exc,             \* what the diarization handler caught, or None
    fatal,                   \* the exception that left transcribe_audio, or None
    transcript_file,         \* the transcript artifact, [written, segments]
    metadata_file,           \* the metadata artifact
    output_file,             \* args.output_file
    disk                     \* what each path holds

vars == <<pc, audio_suffix, enable_diarization, hf_token, temp_created, temp_exists,
          temp_file_to_cleanup, diarization_audio_file, transcription_audio_file,
          diarization_metadata, asr_segments, segments, aligned, diarize_segments,
          assign_stats, handler_exc, fatal, transcript_file, metadata_file,
          output_file, disk>>

InitialMetadata ==
    [attempted |-> FALSE, success |-> FALSE, error |-> None, speaker_count |-> 0,
     conversion_attempted |-> FALSE, conversion_success |-> FALSE,
     conversion_error |-> None, transcription_file_used |-> None,
     diarization_file_used |-> None]

NoAnnotation == Annotation(FALSE, <<>>)
NoStats == [bound |-> FALSE, successful |-> 0, fallback |-> 0]
NoTranscript == [written |-> FALSE, segments |-> <<>>]
NoMetadata == [status |-> "unwritten"]

\* An output path, as the pieces around its occurrences of ".json".
OutputPaths ==
    { <<"out", ".json">>, <<"out", ".txt">>, <<"run", ".json", "/out", ".json">> }

\* args.output_file.replace('.json', '_metadata.json')
MetadataPath(path) ==
    [i \in DOMAIN path |-> IF path[i] = ".json" THEN "_metadata.json" ELSE path[i]]

\* The files main can write, none of them written yet.
EmptyDisk ==
    [p \in OutputPaths \cup { MetadataPath(q) : q \in OutputPaths } |-> "absent"]

\* open(path, 'w') and json.dump: the file holds what was written last.
WriteFile(d, path, content) == [d EXCEPT ![path] = content]

Init ==
    /\ pc = "convert"
    /\ audio_suffix \in AudioSuffixes
    /\ enable_diarization \in BOOLEAN
    /\ hf_token \in BOOLEAN
    /\ temp_created = FALSE
    /\ temp_exists = FALSE
    /\ temp_file_to_cleanup = FALSE
    /\ diarization_audio_file = "original"
    /\ transcription_audio_file = "unset"
    /\ diarization_metadata = InitialMetadata
    /\ asr_segments = <<>>
    /\ segments = <<>>
    /\ aligned = FALSE
    /\ diarize_segments = NoAnnotation
    /\ assign_stats = NoStats
    /\ handler_exc = None
    /\ fatal = None
    /\ transcript_file = NoTranscript
    /\ metadata_file = NoMetadata
    /\ output_file \in OutputPaths
    /\ disk = EmptyDisk

-----------------------------------------------------------------------------
(* transcribe_audio, stage by stage.                                       *)

ConversionOutcomes == {"ok", "exit_nonzero", "empty", "timeout", "exception"}

\* convert_audio_for_diarization for a file that needs conversion: whether
\* the converted file is returned, the error message, and what became of
\* temp_wav.  left says whether ffmpeg had created the file when it stopped.
ConvertResult(outcome, left) ==
    CASE outcome = "ok" ->
           [converted |-> TRUE, error |-> None, created |-> TRUE, exists |-> TRUE]
      [] outcome = "exit_nonzero" ->
           [converted |-> FALSE, error |-> "FFmpeg conversion failed",
            created |-> left, exists |-> left]
      [] outcome = "empty" ->
           [converted |-> FALSE, error |-> "Conversion produced empty or missing file",
            created |-> left, exists |-> left]
      [] outcome = "timeout" ->
           [converted |-> FALSE, error |-> "FFmpeg conversion timed out (>5 minutes)",
            created |-> left, exists |-> FALSE]
      [] OTHER ->
           [converted |-> FALSE, error |-> "Conversion error",
            created |-> FALSE, exists |-> FALSE]

\* Format conversion for diarization compatibility.
Convert ==
    /\ pc = "convert"
    /\ pc' = "load_model"
    /\ IF enable_diarization /\ needs_conversion_for_diarization(audio_suffix)
       THEN \E outcome \in ConversionOutcomes, left \in BOOLEAN :
              LET c == ConvertResult(outcome, left)
              IN  /\ temp_created' = c.created
                  /\ temp_exists' = c.exists
                  /\ temp_file_to_cleanup' = c.converted
                  /\ diarization_audio_file' =
                       IF c.converted THEN "converted" ELSE "original"
                  /\ diarization_metadata' =
                       [diarization_metadata EXCEPT
                          !.conversion_attempted = TRUE,
                          !.conversion_success = c.converted,
                          !.conversion_error = c.error]
       ELSE UNCHANGED <<temp_created, temp_exists, temp_file_to_cleanup,
                        diarization_audio_file, diarization_metadata>>
    /\ UNCHANGED <<audio_suffix, enable_diarization, hf_token,
                   transcription_audio_file, asr_segments, segments, aligned,
                   diarize_segments, assign_stats, handler_exc, fatal,
                   transcript_file, metadata_file,
                   output_file, disk>>

\* An exception that leaves transcribe_audio: nothing after the raising
\* statement runs, the cleanup at the end of the function included.
Raise(reason) ==
    /\ pc' = "raised"
    /\ fatal' = reason

LoadModelOriginalFile ==
    /\ pc = "load_model"
    /\ \E ok \in BOOLEAN :
         IF ok
         THEN /\ pc' = "load_audio"
              /\ transcription_audio_file' = "original"
              /\ diarization_metadata' =
                   [diarization_metadata EXCEPT
                      !.transcription_file_used = "original",
                      !.diarization_file_used =
                          IF diarization_metadata.conversion_success
                          THEN "converted" ELSE "original"]
              /\ UNCHANGED fatal
         ELSE /\ Raise("load_model failed")
              /\ UNCHANGED <<transcription_audio_file, diarization_metadata>>
    /\ UNCHANGED <<audio_suffix, enable_diarization, hf_token, temp_created,
                   temp_exists, temp_file_to_cleanup, diarization_audio_file,
                   asr_segments, segments, aligned, diarize_segments, assign_stats,
                   handler_exc, transcript_file, metadata_file,
                   output_file, disk>>

\* whisperx.load_model, then the choice of the file to transcribe.
LoadModel ==
    /\ pc = "load_model"
    /\ \E ok \in BOOLEAN :
         IF ok
         THEN /\ pc' = "load_audio"
              /\ LET used == IF diarization_metadata.conversion_success
                             THEN "converted" ELSE "original"
                 IN  /\ transcription_audio_file' = used
                     /\ diarization_metadata' =
                          [diarization_metadata EXCEPT
                             !.transcription_file_used = used,
                             !.diarization_file_used = used]
              /\ UNCHANGED fatal
         ELSE /\ Raise("load_model failed")
              /\ UNCHANGED <<transcription_audio_file, diarization_metadata>>
    /\ UNCHANGED <<audio_suffix, enable_diarization, hf_token, temp_created,
                   temp_exists, temp_file_to_cleanup, diarization_audio_file,
                   asr_segments, segments, aligned, diarize_segments, assign_stats,
                   handler_exc, transcript_file, metadata_file,
                   output_file, disk>>

\* whisperx.load_audio
LoadAudio ==
    /\ pc = "load_audio"
    /\ \E ok \in BOOLEAN :
         IF ok THEN pc' = "transcribe" /\ UNCHANGED fatal
         ELSE Raise("load_audio failed")
    /\ UNCHANGED <<audio_suffix, enable_diarization, hf_token, temp_created,
                   temp_exists, temp_file_to_cleanup, diarization_audio_file,
                   transcription_audio_file, diarization_metadata, asr_segments,
                   segments, aligned, diarize_segments, assign_stats, handler_exc,
                   transcript_file, metadata_file,
                   output_file, disk>>

\* model.transcribe
Transcribe ==
    /\ pc = "transcribe"
    /\ \/ /\ pc' = "align"
          /\ segments' \in SampleSegLists
          /\ UNCHANGED fatal
       \/ /\ Raise("transcribe failed")
          /\ UNCHANGED segments
    /\ UNCHANGED <<audio_suffix, enable_diarization, hf_token, temp_created,
                   temp_exists, temp_file_to_cleanup, diarization_audio_file,
                   transcription_audio_file, diarization_metadata, asr_segments,
                   aligned, diarize_segments, assign_stats, handler_exc,
                   transcript_file, metadata_file,
                   output_file, disk>>

\* The alignment try statement: a failure keeps the unaligned segments and
\* goes on.  An alignment returns as many segments, with refined times.
AlignFatal ==
    /\ pc = "align"
    /\ \/ /\ pc' = "diarize"
          /\ aligned' = TRUE
          /\ segments' \in { l \in SampleSegLists : Len(l) = Len(segments) }
          /\ asr_segments' = segments'
          /\ UNCHANGED fatal
       \/ /\ Raise("alignment failed")
          /\ UNCHANGED <<aligned, segments, asr_segments>>
    /\ UNCHANGED <<audio_suffix, enable_diarization, hf_token, temp_created,
                   temp_exists, temp_file_to_cleanup, diarization_audio_file,
                   transcription_audio_file, diarization_metadata,
                   diarize_segments, assign_stats, handler_exc,
                   transcript_file, metadata_file,
                   output_file, disk>>
Align ==
    /\ pc = "align"
    /\ pc' = "diarize"
    /\ \/ /\ aligned' = TRUE
          /\ segments' \in { l \in SampleSegLists : Len(l) = Len(segments) }
       \/ /\ aligned' = FALSE
          /\ UNCHANGED segments
    /\ asr_segments' = segments'
    /\ UNCHANGED <<audio_suffix, enable_diarization, hf_token, temp_created,
                   temp_exists, temp_file_to_cleanup, diarization_audio_file,
                   transcription_audio_file, diarization_metadata,
                   diarize_segments, assign_stats, handler_exc, fatal,
                   transcript_file, metadata_file,
                   output_file, disk>>

\* The branches that do not run diarization: disabled, or no token.
SkipDiarization ==
    /\ pc = "diarize"
    /\ ~(enable_diarization /\ hf_token)
    /\ pc' = "finish"
    /\ diarization_metadata' =
         IF enable_diarization /\ ~hf_token
         THEN [diarization_metadata EXCEPT !.error = ErrNoToken]
         ELSE diarization_metadata
    /\ UNCHANGED <<audio_suffix, enable_diarization, hf_token, temp_created,
                   temp_exists, temp_file_to_cleanup, diarization_audio_file,
                   transcription_audio_file, asr_segments, segments, aligned,
                   diarize_segments, assign_stats, handler_exc, fatal,
                   transcript_file, metadata_file,
                   output_file, disk>>

\* Loading and running the diarization pipeline: it raises, and the handler
\* of the block records the message, or it returns an annotation.
RunDiarizeModel ==
    /\ pc = "diarize"
    /\ enable_diarization /\ hf_token
    /\ \/ /\ pc' = "finish"
          /\ handler_exc' = ErrModel
          /\ diarization_metadata' =
               DiarizeHandler([diarization_metadata EXCEPT !.attempted = TRUE], ErrModel)
          /\ UNCHANGED diarize_segments
       \/ /\ pc' = "assign"
          /\ diarize_segments' \in SampleDiarizeOutputs
          /\ diarization_metadata' = [diarization_metadata EXCEPT !.attempted = TRUE]
          /\ UNCHANGED handler_exc
    /\ UNCHANGED <<audio_suffix, enable_diarization, hf_token, temp_created,
                   temp_exists, temp_file_to_cleanup, diarization_audio_file,
                   transcription_audio_file, asr_segments, segments, aligned,
                   assign_stats, fatal, transcript_file, metadata_file,
                   output_file, disk>>

\* Speaker detection, turn extraction and speaker assignment, to the end of
\* the try statement or into its handler.
AssignSpeakers ==
    /\ pc = "assign"
    /\ pc' = "finish"
    /\ LET r == Reconcile(segments, diarize_segments, diarization_metadata)
       IN  /\ segments' = r.segments
           /\ diarization_metadata' = r.md
           /\ assign_stats' = r.stats
           /\ handler_exc' = r.exc
    /\ UNCHANGED <<audio_suffix, enable_diarization, hf_token, temp_created,
                   temp_exists, temp_file_to_cleanup, diarization_audio_file,
                   transcription_audio_file, asr_segments, aligned,
                   diarize_segments, fatal, transcript_file, metadata_file,
                   output_file, disk>>

\* The end of transcribe_audio: the metadata joins the result, the
\* temporary file is cleaned up, the result is returned.
Finish ==
    /\ pc = "finish"
    /\ pc' = "returned"
    /\ temp_exists' = IF temp_file_to_cleanup THEN FALSE ELSE temp_exists
    /\ UNCHANGED <<audio_suffix, enable_diarization, hf_token, temp_created,
                   temp_file_to_cleanup, diarization_audio_file,
                   transcription_audio_file, diarization_metadata, asr_segments,
                   segments, aligned, diarize_segments, assign_stats, handler_exc,
                   fatal, transcript_file, metadata_file,
                   output_file, disk>>

-----------------------------------------------------------------------------
(* main, after the call of transcribe_audio.                               *)

\* SpeakersInResult testing the presence of the key, not its truth.
SpeakersInResultAnyKey(segs) ==
    { segs[k].speaker : k \in { j \in DOMAIN segs : segs[j].speaker # Missing } }

\* The labels main finds in the segments; a missing key and None are both
\* falsy for s.get("speaker").
SpeakersInResult(segs) ==
    { segs[k].speaker : k \in { j \in DOMAIN segs :
                                  segs[j].speaker \notin {Missing, None, ""} } }

SuccessMetadata(segs, md, enabled) ==
    [status |-> "success",
     has_speakers |-> Cardinality(SpeakersInResult(segs)) > 0,
     speaker_count |-> Cardinality(SpeakersInResult(segs)),
     diarization_enabled |-> enabled,
     diarization_attempted |-> md.attempted,
     diarization_success |-> md.success,
     diarization_error |-> md.error,
     detected_speakers |-> md.speaker_count,
     format_conversion_attempted |-> md.conversion_attempted,
     format_conversion_success |-> md.conversion_success,
     format_conversion_error |-> md.conversion_error,
     transcription_file_used |-> md.transcription_file_used,
     diarization_file_used |-> md.diarization_file_used]

FailureMetadata(e, enabled) ==
    [status |-> "failed",
     has_speakers |-> FALSE,
     speaker_count |-> 0,
     diarization_enabled |-> enabled,
     diarization_attempted |-> FALSE,
     diarization_success |-> FALSE,
     diarization_error |-> <<"Transcription failed: ", e>>,
     detected_speakers |-> 0,
     error |-> e]

\* transcribe_audio returned: the transcript is saved without the
\* diarization metadata, then the metadata file is written.
MainSuccess ==
    /\ pc = "returned"
    /\ pc' = "done"
    /\ transcript_file' = [written |-> TRUE, segments |-> segments]
    /\ metadata_file' = SuccessMetadata(segments, diarization_metadata, enable_diarization)
    /\ disk' = WriteFile(WriteFile(disk, output_file, "transcript"),
                         MetadataPath(output_file), "metadata")
    /\ UNCHANGED output_file
    /\ UNCHANGED <<audio_suffix, enable_diarization, hf_token, temp_created,
                   temp_exists, temp_file_to_cleanup, diarization_audio_file,
                   transcription_audio_file, diarization_metadata, asr_segments,
                   segments, aligned, diarize_segments, assign_stats, handler_exc,
                   fatal>>

\* transcribe_audio raised: only the error metadata is written.
MainFailure ==
    /\ pc = "raised"
    /\ pc' = "done"
    /\ metadata_file' = FailureMetadata(fatal, enable_diarization)
    /\ disk' = WriteFile(disk, MetadataPath(output_file), "metadata")
    /\ UNCHANGED output_file
    /\ UNCHANGED <<audio_suffix, enable_diarization, hf_token, temp_created,
                   temp_exists, temp_file_to_cleanup, diarization_audio_file,
                   transcription_audio_file, diarization_metadata, asr_segments,
                   segments, aligned, diarize_segments, assign_stats, handler_exc,
                   fatal, transcript_file>>

Next ==
    \/ Convert
    \/ LoadModel
    \/ LoadAudio
    \/ Transcribe
    \/ Align
    \/ SkipDiarization
    \/ RunDiarizeModel
    \/ AssignSpeakers
    \/ Finish
    \/ MainSuccess
    \/ MainFailure

\* One run of main on one audio file.
Spec == Init /\ [][Next]_vars

\* The reconciler alone: the diarization stage over every segment list and
\* every annotation within the bounds, from the state in which alignment is
\* over and, when diarization is enabled and the token is set, the
\* diarization model has just returned.
InitAssign ==
    /\ audio_suffix = ".wav"
    /\ enable_diarization \in BOOLEAN
    /\ hf_token \in BOOLEAN
    /\ temp_created = FALSE
    /\ temp_exists = FALSE
    /\ temp_file_to_cleanup = FALSE
    /\ diarization_audio_file = "original"
    /\ transcription_audio_file = "original"
    /\ asr_segments \in AsrOutputs
    /\ segments = asr_segments
    /\ aligned = TRUE
    /\ IF enable_diarization /\ hf_token
       THEN /\ pc = "assign"
            /\ diarize_segments \in DiarizeOutputs
            /\ Len(asr_segments) + Len(diarize_segments.tracks) <= MaxItems
       ELSE /\ pc = "diarize"
            /\ diarize_segments = NoAnnotation
    /\ diarization_metadata =
         [InitialMetadata EXCEPT !.attempted = (enable_diarization /\ hf_token),
                                 !.transcription_file_used = "original",
                                 !.diarization_file_used = "original"]
    /\ assign_stats = NoStats
    /\ handler_exc = None
    /\ fatal = None
    /\ transcript_file = NoTranscript
    /\ metadata_file = NoMetadata
    /\ output_file = <<"out", ".json">>
    /\ disk = EmptyDisk

NextAssign == SkipDiarization \/ AssignSpeakers

SpecAssign == InitAssign /\ [][NextAssign]_vars

-----------------------------------------------------------------------------
(* The claims.  The definitions below state what is claimed in terms of    *)
(* the annotation and the segments, independently of the scans above.      *)

\* The diarization stage is over (a run that raised never entered it).
StageOver == pc \in {"finish", "returned", "done"} /\ fatal = None

\* The turns with start >= 0 and end > start, in iteration order.
ValidTurnsOf(d) ==
    SelectSeq(d.tracks, LAMBDA it : it.wf /\ it.start >= 0 /\ it.end > it.start)
ValidTurns == ValidTurnsOf(diarize_segments)
ValidLabels == { ValidTurns[j].speaker : j \in DOMAIN ValidTurns }

\* max(0, min(segEnd, turnEnd) - max(segStart, turnStart))
ClaimedOverlap(seg, turn) ==
    LET lo == IF seg.start >= turn.start THEN seg.start ELSE turn.start
        hi == IF seg.end <= turn.end THEN seg.end ELSE turn.end
    IN  IF hi - lo > 0 THEN hi - lo ELSE 0

\* The gap between a segment and a turn.
ClaimedGap(seg, turn) ==
    IF turn.start >= seg.end THEN turn.start - seg.end
    ELSE IF turn.end <= seg.start THEN seg.start - turn.end
    ELSE 0

HasOverlap(seg) == \E j \in DOMAIN ValidTurns : ClaimedOverlap(seg, ValidTurns[j]) > 0

\* C1: after the speaker-assignment stage, whatever the segments, the turns
\* and the diarization flag, the segment list has the length it had before
\* and every segment its start, end and text, in the same order.
C1_OrderPreserved ==
    StageOver =>
        /\ Len(segments) = Len(asr_segments)
        /\ \A k \in DOMAIN segments :
             /\ segments[k].start = asr_segments[k].start
             /\ segments[k].end = asr_segments[k].end
             /\ segments[k].text = asr_segments[k].text

\* Two segments went through the assignment and both got a label.
C1_Witness ==
    /\ pc = "finish"
    /\ Len(segments) = 2
    /\ \A k \in DOMAIN segments : segments[k].speaker \in Labels

\* C2: the speaker-assignment stage never ends in the exception handler of
\* the diarization block, whatever the segments and the turns.
C2_NeverRaises ==
    (pc = "finish" /\ diarization_metadata.attempted) => handler_exc = None

\* C3: when no turn has start >= 0 and end > start, every segment's speaker
\* is None after the run and the outcome has success = FALSE.
C3_NoValidTurnAllNone ==
    (pc = "finish" /\ diarization_metadata.attempted /\ ValidTurns = <<>>) =>
        /\ \A k \in DOMAIN segments : segments[k].speaker = None
        /\ diarization_metadata.success = FALSE

\* Diarization yielded no speakers because it was disabled, because the
\* token was absent, or because the diarization model raised.
NoDiarization ==
    \/ ~enable_diarization
    \/ ~hf_token
    \/ handler_exc = ErrModel

\* The outcome's error in these three cases: the reason, or none when
\* diarization is disabled.
NoDiarizationReasonRecorded ==
    /\ (enable_diarization /\ ~hf_token) => diarization_metadata.error = ErrNoToken
    /\ handler_exc = ErrModel => diarization_metadata.error = ErrModel

FirstLargestOverlap(seg) ==
    CHOOSE j \in DOMAIN ValidTurns :
        /\ \A m \in DOMAIN ValidTurns :
             ClaimedOverlap(seg, ValidTurns[m]) <= ClaimedOverlap(seg, ValidTurns[j])
        /\ \A m \in 1..(j - 1) :
             ClaimedOverlap(seg, ValidTurns[m]) < ClaimedOverlap(seg, ValidTurns[j])

\* C5: a segment that some valid turn overlaps gets the speaker of the turn
\* with the largest overlap, the first such turn in iteration order on ties.
C5_LargestOverlapFirstWins ==
    StageOver =>
        \A k \in DOMAIN segments :
            HasOverlap(asr_segments[k]) =>
                segments[k].speaker = ValidTurns[FirstLargestOverlap(asr_segments[k])].speaker

\* A segment that two turns with different labels overlap equally got the
\* label of the first.
C5_Witness ==
    /\ pc = "finish"
    /\ Len(segments) = 1
    /\ Len(ValidTurns) = 2
    /\ ValidTurns[1].speaker # ValidTurns[2].speaker
    /\ ClaimedOverlap(asr_segments[1], ValidTurns[1]) > 0
    /\ ClaimedOverlap(asr_segments[1], ValidTurns[1]) =
         ClaimedOverlap(asr_segments[1], ValidTurns[2])
    /\ segments[1].speaker = ValidTurns[1].speaker

\* The number of segments that some valid turn overlaps.
OverlappedCount == Cardinality({ k \in DOMAIN asr_segments : HasOverlap(asr_segments[k]) })

\* C6: a segment that no valid turn overlaps, while some valid turn exists,
\* gets the speaker of a turn at the minimum gap; the nearest-gap assignment
\* is used for these segments only.
C6_NearestGap ==
    (StageOver /\ ValidTurns # <<>> /\ segments # <<>>) =>
        /\ \A k \in DOMAIN segments :
             ~HasOverlap(asr_segments[k]) =>
                 \E j \in DOMAIN ValidTurns :
                     /\ segments[k].speaker = ValidTurns[j].speaker
                     /\ \A m \in DOMAIN ValidTurns :
                          ClaimedGap(asr_segments[k], ValidTurns[j])
                            <= ClaimedGap(asr_segments[k], ValidTurns[m])
        /\ assign_stats.bound
        /\ assign_stats.successful = OverlappedCount
        /\ assign_stats.fallback = Len(segments) - OverlappedCount

\* A segment of length zero that no turn overlaps got the label of the
\* second turn, which is nearer than the first.
C6_Witness ==
    /\ pc = "finish"
    /\ Len(segments) = 1
    /\ asr_segments[1].start = asr_segments[1].end
    /\ Len(ValidTurns) = 2
    /\ ~HasOverlap(asr_segments[1])
    /\ ValidTurns[1].speaker # ValidTurns[2].speaker
    /\ ClaimedGap(asr_segments[1], ValidTurns[2]) < ClaimedGap(asr_segments[1], ValidTurns[1])
    /\ segments[1].speaker = ValidTurns[2].speaker

\* The labels the first pass detected.
KnownSpeakers ==
    IF diarize_segments.raises THEN {}
    ELSE { diarize_segments.tracks[j].speaker :
             j \in { m \in DOMAIN diarize_segments.tracks : diarize_segments.tracks[m].wf } }

\* The deterministic fallback for the segment of 0-based index i.
ClaimedFallback(i, seg, segs, sorted_speakers) ==
    IF Len(sorted_speakers) = 2
    THEN IF 2 * seg.start < segs[Len(segs)].end
         THEN sorted_speakers[1] ELSE sorted_speakers[2]
    ELSE sorted_speakers[(i % Len(sorted_speakers)) + 1]

\* C7: when some speaker is known but no turn survived extraction, every
\* segment is assigned by the deterministic fallback.
C7_DeterministicFallback ==
    (pc = "finish" /\ diarization_metadata.attempted
        /\ KnownSpeakers # {} /\ ValidTurns = <<>>) =>
        \A k \in DOMAIN segments :
            segments[k].speaker =
                ClaimedFallback(k - 1, asr_segments[k], asr_segments, SortedList(KnownSpeakers))

\* C8: when diarization was invoked and some valid speaker exists, the
\* outcome has success = TRUE and speaker_count is the number of distinct
\* labels of the valid turns, for every segment list.
C8_SuccessAndValidCount ==
    (pc = "finish" /\ diarization_metadata.attempted /\ ValidLabels # {}) =>
        /\ diarization_metadata.success = TRUE
        /\ diarization_metadata.speaker_count = Cardinality(ValidLabels)

\* C9: once transcribe_audio has returned or raised, a temporary file that
\* a conversion created no longer exists.
C9_TempFileRemoved ==
    (pc \in {"returned", "raised", "done"} /\ temp_created) => ~temp_exists

AsrFailures == {"load_model failed", "load_audio failed", "transcribe failed"}

\* A failure the run recovers from has happened.
RecoveredFailure ==
    \/ diarization_metadata.conversion_error # None
    \/ ~aligned
    \/ (enable_diarization /\ ~hf_token)
    \/ handler_exc # None

\* C10: only a failure of model loading, audio loading or transcription
\* ends the run as failed; a run without one writes the transcript and
\* metadata with status "success", whatever conversion, alignment, the
\* token and diarization did; a failed run writes no transcript and writes
\* metadata with status "failed" and the reason.
C10_OnlyAsrFailureIsFatal ==
    /\ fatal \in AsrFailures \cup {None}
    /\ pc \in {"diarize", "assign", "finish", "returned"} => fatal = None
    /\ pc = "raised" => fatal # None
    /\ (pc = "done" /\ fatal = None) =>
         /\ transcript_file.written
         /\ transcript_file.segments = segments
         /\ Len(transcript_file.segments) = Len(asr_segments)
         /\ metadata_file.status = "success"
    /\ (pc = "done" /\ fatal # None) =>
         /\ ~transcript_file.written
         /\ metadata_file.status = "failed"
         /\ metadata_file.error = fatal

\* A run in which conversion failed, alignment failed and the diarization
\* model raised ended with the transcript written and status "success".
C10_Witness ==
    /\ pc = "done"
    /\ diarization_metadata.conversion_error # None
    /\ ~aligned
    /\ handler_exc = ErrModel
    /\ transcript_file.written
    /\ Len(transcript_file.segments) = 2
    /\ metadata_file.status = "success"

\* C11: the file given to transcription and the file given to diarization
\* are the same: the converted file when a conversion was attempted and
\* succeeded, the original file otherwise.
C11_SameAudioFile ==
    /\ pc # "convert" =>
         /\ diarization_metadata.conversion_attempted =
              (enable_diarization /\ needs_conversion_for_diarization(audio_suffix))
         /\ (diarization_audio_file = "converted") =
              (diarization_metadata.conversion_attempted
                 /\ diarization_metadata.conversion_error = None)
    /\ transcription_audio_file # "unset" =>
         /\ transcription_audio_file = diarization_audio_file
         /\ diarization_metadata.transcription_file_used = transcription_audio_file
         /\ diarization_metadata.diarization_file_used = diarization_audio_file

\* Diarization ran on the converted file, which was also the one transcribed.
C11_Witness ==
    /\ pc = "done"
    /\ diarization_metadata.attempted
    /\ transcription_audio_file = "converted"
    /\ diarization_audio_file = "converted"

\* C12: no segment that leaves the diarization block carries the diagnostic
\* keys, on the paths into the handler as on the others.
C12_NoDiagnosticKeys ==
    /\ StageOver => \A k \in DOMAIN segments : ~segments[k].dbg
    /\ \A k \in DOMAIN transcript_file.segments : ~transcript_file.segments[k].dbg

\* Two segments were assigned, one by overlap and one by nearest gap, and
\* the block ended without an exception.
C12_Witness ==
    /\ pc = "finish"
    /\ handler_exc = None
    /\ Len(segments) = 2
    /\ assign_stats.bound
    /\ assign_stats.successful = 1
    /\ assign_stats.fallback = 1

\* C13: a turn with start < 0, with end <= start or without start/end is
\* never the source of a speaker: every label a segment carries is the label
\* of a turn with start >= 0 and end > start.
C13_OnlyValidTurnsAssign ==
    StageOver =>
        \A k \in DOMAIN segments :
            segments[k].speaker \in Labels => segments[k].speaker \in ValidLabels

\* A turn with a negative start covers the whole segment, a valid turn with
\* another label covers less of it, and the segment got the valid turn's label.
C13_Witness ==
    /\ pc = "finish"
    /\ Len(segments) = 1
    /\ Len(diarize_segments.tracks) = 2
    /\ diarize_segments.tracks[1].wf
    /\ diarize_segments.tracks[1].start < 0
    /\ diarize_segments.tracks[1].end >= asr_segments[1].end
    /\ asr_segments[1].end > asr_segments[1].start
    /\ Len(ValidTurns) = 1
    /\ ValidTurns[1].speaker # diarize_segments.tracks[1].speaker
    /\ segments[1].speaker = ValidTurns[1].speaker

\* The metadata on entry to the diarization block of a run that attempted
\* diarization.
EntryMetadata ==
    [diarization_metadata EXCEPT !.success = FALSE, !.error = None, !.speaker_count = 0]

\* C14: the assignment stage run again on the segments it produced, with
\* the same annotation, gives every segment the same speaker and the same
\* outcome record, from the entry metadata as from the metadata it left.
C14_Idempotent ==
    (pc = "finish" /\ diarization_metadata.attempted /\ handler_exc # ErrModel) =>
        LET fresh == Reconcile(segments, diarize_segments, EntryMetadata)
            again == Reconcile(segments, diarize_segments, diarization_metadata)
        IN  /\ fresh.segments = segments
            /\ fresh.md = diarization_metadata
            /\ again.segments = segments
            /\ again.md = diarization_metadata

\* The first run broke a tie between two turns with different labels.
C14_Witness ==
    /\ pc = "finish"
    /\ handler_exc = None
    /\ Len(segments) = 1
    /\ Len(ValidTurns) = 2
    /\ ValidTurns[1].speaker # ValidTurns[2].speaker
    /\ ClaimedOverlap(asr_segments[1], ValidTurns[1]) = 1
    /\ ClaimedOverlap(asr_segments[1], ValidTurns[2]) = 1
    /\ segments[1].speaker \in Labels

\* C15: when diarization was attempted and no speaker was detected, the
\* outcome's error is "No speakers detected in diarization output", or the
\* speaker-detection failure captured earlier; nothing later replaces it.
C15_NoSpeakersReasonKept ==
    (pc = "finish" /\ diarization_metadata.attempted /\ handler_exc # ErrModel
        /\ KnownSpeakers = {}) =>
        diarization_metadata.error =
            IF diarize_segments.raises THEN ErrDetection ELSE ErrNoSpeakers

\* C16: on a successful run, whatever the output path, the metadata path
\* differs from the transcript path, and after main the output path holds
\* the transcript and the sibling path the metadata.
C16_TwoDistinctArtifacts ==
    (pc = "done" /\ fatal = None) =>
        /\ MetadataPath(output_file) # output_file
        /\ disk[output_file] = "transcript"
        /\ disk[MetadataPath(output_file)] = "metadata"

\* C17: the outcome record transcribe_audio returns is consistent: success
\* implies attempted, no error and at least one speaker; failure implies a
\* speaker count of zero; an attempt that failed has an error recorded; and
\* attempted is true exactly when diarization is enabled and the token is set.
C17_OutcomeConsistent ==
    StageOver =>
        LET md == diarization_metadata
        IN  /\ md.success =>
                 (md.attempted /\ md.error = None /\ md.speaker_count >= 1)
            /\ ~md.success => md.speaker_count = 0
            /\ (md.attempted /\ ~md.success) => md.error # None
            /\ md.attempted = (enable_diarization /\ hf_token)

C17_Witness ==
    /\ pc = "returned"
    /\ diarization_metadata.attempted
    /\ diarization_metadata.success
    /\ diarization_metadata.speaker_count = 2

\* C18: in the metadata main writes with status "success", has_speakers
\* equals diarization_success: a reported success means every saved segment
\* carries a label, a reported failure means none does, and speaker_count
\* is at most detected_speakers.
C18_MetadataAgrees ==
    (pc = "done" /\ metadata_file.status = "success") =>
        LET saved == transcript_file.segments
            Labelled(k) == saved[k].speaker \in Labels
        IN  /\ metadata_file.has_speakers = metadata_file.diarization_success
            /\ metadata_file.diarization_success =>
                 \A k \in DOMAIN saved : Labelled(k)
            /\ (\E k \in DOMAIN saved : Labelled(k)) =>
                 metadata_file.diarization_success
            /\ metadata_file.speaker_count <= metadata_file.detected_speakers

C18_Witness ==
    /\ pc = "done"
    /\ metadata_file.status = "success"
    /\ metadata_file.diarization_success
    /\ metadata_file.has_speakers
    /\ metadata_file.speaker_count = 2
    /\ Len(transcript_file.segments) = 2

====
